---- MODULE Spec2Model ----
(***************************************************************************)
(* The get() operation of the Aerospike Node.js client                     *)
(* (src/main/client/get.cc): the three stages prepare, execute and respond *)
(* that async_invoke runs for one call, the envelope (AsyncData) they      *)
(* share, the blocking store call and the completion callback.             *)
(*                                                                         *)
(* Threads: Get (with prepare) and respond run on the event-loop thread;   *)
(* execute runs on a libuv worker thread, one work request per call, and   *)
(* can start as soon as the request is queued.  The blocking store call is *)
(* in flight between execute_call and execute_return.                      *)
(*                                                                         *)
(* Spec runs get() calls of every argument shape against a store that      *)
(* holds one record.  TestSpec runs one put -> operate -> get test of the  *)
(* test suite, all its iterations, against an empty store: every call of   *)
(* put() and operate() is issued on the loop, served on a worker thread    *)
(* and completed by its callback on the loop; the get goes through its     *)
(* three stages and is completed by the callback the test gives it.        *)
(*                                                                         *)
(* Each stage is an operator from a machine state S (a record of the       *)
(* variables) to the set of machine states the stage can leave behind.     *)
(* It is a set because the code reads memory it never initialised: those   *)
(* reads are undefined behaviour, modelled as every outcome the build can  *)
(* produce (any value, or the process dying).                              *)
(***************************************************************************)
EXTENDS Integers, Sequences, FiniteSets, TLC

VARIABLES
    args,       \* args[c]: the JavaScript arguments of call c (<< >> before the call)
    req,        \* req[c]: the uv_work_t of call c
    heap,       \* heap[a]: the AsyncData at address a
    log,        \* log[c]: what the stages of call c did, in order
    allocd,     \* allocd[c]: the heap blocks prepare allocated for call c
    freed,      \* freed[c]: the heap blocks the stages of call c released, in order
    net,        \* net[c]: the blocking store calls made for call c
    delivered,  \* delivered[c]: the argument lists the callback of call c received
    crashed,    \* the process is gone: a fault, or node::FatalException ended it
    store,      \* store[k]: the record the cluster holds under key digest k
    test,       \* test[i]: where iteration i of a put -> operate -> get test stands
    m           \* the test's counter of gets that met its expectations (var m)

vars == <<args, req, heap, log, allocd, freed, net, delivered, crashed, store, test, m>>

(***************************************************************************)
(* Bounds and constants                                                    *)
(***************************************************************************)

\* Number of get() calls issued in one run.
MaxCalls == 2

Calls == 1..MaxCalls
Addr == 1..MaxCalls

\* conversions.h
AS_NODE_PARAM_ERR == -1
AS_NODE_PARAM_OK == 0

\* Size of one bin-name buffer (as_bin.h of the C client; used by prepare).
AS_BIN_NAME_MAX_SIZE == 16

\* Status codes of the C client (as_status.h).
as_status ==
    [AEROSPIKE_OK |-> 0, AEROSPIKE_ERR_PARAM |-> 201,
     AEROSPIKE_ERR_TIMEOUT |-> 400, AEROSPIKE_ERR_RECORD_NOT_FOUND |-> 602]

AEROSPIKE_OK == as_status.AEROSPIKE_OK

Min(a, b) == IF a < b THEN a ELSE b

(***************************************************************************)
(* JavaScript values (V8 handles)                                          *)
(***************************************************************************)

JsUndefined == [t |-> "undefined"]
JsNumber(n) == [t |-> "number", n |-> n]
JsString(s) == [t |-> "string", s |-> s]
JsArray(el) == [t |-> "array", el |-> el]
JsObject(f) == [t |-> "object", f |-> f]
\* A function is known by its body: "return" and "throw" do just that, the
\* callbacks of the tests are named after their test.
JsFunction(body) == [t |-> "function", body |-> body]
\* What a conversion yields from memory that holds no value.
JsGarbage == [t |-> "garbage"]

IsArray(v) == v.t = "array"
\* v8::Value::IsObject: arrays and functions are objects too.
IsObject(v) == v.t \in {"object", "array", "function"}

JsGet(obj, name) ==
    IF obj.t = "object" /\ name \in DOMAIN obj.f THEN obj.f[name] ELSE JsUndefined

(***************************************************************************)
(* The calls the model issues: one argument list per shape get() accepts   *)
(* or mishandles.                                                          *)
(***************************************************************************)

KeyObject == JsObject([ns |-> JsString("test"), set |-> JsString("demo"),
                       key |-> JsString("INCR1")])
KeyArray == JsArray(<<JsString("test"), JsString("demo"), JsNumber(7)>>)
\* Malformed keys: no user key; not a key at all.
KeyNoVariant == JsObject([ns |-> JsString("test"), set |-> JsString("demo")])
KeyNumber == JsNumber(42)

BinsShort == JsArray(<<JsString("integer_bin"), JsString("s")>>)
\* One name of more than AS_BIN_NAME_MAX_SIZE characters.
BinsLong == JsArray(<<JsString("a_bin_name_longer_than_the_buffer")>>)
ReadPolicy == JsObject([timeout |-> JsNumber(10)])

\* Some callback that returns, and one that throws.
Callback == JsFunction("return")
CallbackThrows == JsFunction("throw")

ArgLists ==
    << <<KeyObject, Callback>>,
       <<KeyArray, Callback>>,
       <<KeyNumber, Callback>>,
       <<KeyNoVariant, Callback>>,
       <<KeyObject, BinsShort, Callback>>,
       <<KeyObject, ReadPolicy, Callback>>,
       <<KeyObject, BinsShort, ReadPolicy, Callback>>,
       <<KeyObject, BinsLong, Callback>>,
       <<KeyObject, CallbackThrows>> >>

\* The put -> operate -> get tests of the test suite, one iteration per call:
\* iteration i works on the record whose user key is the test's name followed by i.
Tests == {"INCR", "TOUCHSTRING"}
\* The number of iterations of a test (n of test.js).
TestN == MaxCalls

Digits == <<"0", "1", "2", "3", "4", "5", "6", "7", "8", "9">>
RECURSIVE NumberToString(_)
NumberToString(i) == IF i < 10 THEN Digits[i + 1] ELSE NumberToString(i \div 10) \o Digits[(i % 10) + 1]

TestKey(t, i) == JsObject([ns |-> JsString("test"), set |-> JsString("demo"),
                           key |-> JsString(t \o NumberToString(i))])
\* new GetRecord(i) of test.js: its bins and its metadata.
GetRecordBins(i) == JsObject([integer_bin |-> JsNumber(i), string_bin |-> JsString(NumberToString(i))])
GetRecordMetadata(i) == JsObject([ttl |-> JsNumber(10000), gen |-> JsNumber(1)])
\* The sub-operations and the metadata each test hands to operate().
TestOps(t) ==
    IF t = "INCR"
    THEN JsArray(<<JsObject([operation |-> JsString("INCR"), binName |-> JsString("integer_bin"),
                             binValue |-> JsNumber(10)])>>)
    ELSE JsArray(<<JsObject([operation |-> JsString("TOUCH")])>>)
TestMeta(t) ==
    IF t = "INCR" THEN << >> ELSE <<JsObject([ttl |-> JsNumber(10000), gen |-> JsNumber(2)])>>
\* The function test t passes to client.get.
GetCallback(t) == JsFunction(t)

(***************************************************************************)
(* Native structures of the C client, and the conversions of conversions.h *)
(***************************************************************************)

AsString(s) == [type |-> "AS_STRING", str |-> s, int |-> 0]
AsInteger(n) == [type |-> "AS_INTEGER", str |-> "", int |-> n]

\* Members of a freshly allocated AsyncData: nothing has written them yet.
KeyUninit == [st |-> "uninit", ns |-> "", set |-> "", value |-> [type |-> "AS_UNDEF", str |-> "", int |-> 0]]
\* A record without bins.
NoBins == [n \in {} |-> AsInteger(0)]
RecUninit == [st |-> "uninit", bins |-> NoBins, gen |-> 0, ttl |-> 0]
ErrUninit == [st |-> "uninit", code |-> 0]

\* Shared by both key parsers: validate the three fields, then as_key_init.
\* On a malformed key the parser reports AS_NODE_PARAM_ERR and leaves *key alone.
key_from_fields(key, ns, set, k) ==
    IF ns.t = "string" /\ set.t = "string" /\ k.t \in {"string", "number"}
    THEN [rc |-> AS_NODE_PARAM_OK,
          key |-> [st |-> "init", ns |-> ns.s, set |-> set.s,
                   value |-> IF k.t = "string" THEN AsString(k.s) ELSE AsInteger(k.n)]]
    ELSE [rc |-> AS_NODE_PARAM_ERR, key |-> key]

key_from_jsobject(key, obj) ==
    key_from_fields(key, JsGet(obj, "ns"), JsGet(obj, "set"), JsGet(obj, "key"))

key_from_jsarray(key, arr) ==
    IF Len(arr.el) = 3
    THEN key_from_fields(key, arr.el[1], arr.el[2], arr.el[3])
    ELSE [rc |-> AS_NODE_PARAM_ERR, key |-> key]

\* The native key a JavaScript key stands for, in either of its forms.
KeyOf(v) == IF IsArray(v) THEN key_from_jsarray(KeyUninit, v) ELSE key_from_jsobject(KeyUninit, v)

key_to_jsobject(key) ==
    JsObject([ns |-> JsString(key.ns), set |-> JsString(key.set),
              key |-> IF key.value.type = "AS_STRING" THEN JsString(key.value.str)
                      ELSE JsNumber(key.value.int)])

\* A JavaScript value as an as_val: numbers and strings only.
val_from_jsvalue(v) == IF v.t = "string" THEN AsString(v.s) ELSE AsInteger(v.n)

\* The bins of a JavaScript object, written into the record; a bin name that does
\* not fit its buffer or a value of another type is a parameter error.
recordbins_from_jsobject(rec, obj) ==
    IF /\ obj.t = "object"
       /\ \A n \in DOMAIN obj.f : /\ Len(n) < AS_BIN_NAME_MAX_SIZE
                                   /\ obj.f[n].t \in {"string", "number"}
    THEN [rc |-> AS_NODE_PARAM_OK,
          rec |-> [rec EXCEPT !.bins = [n \in DOMAIN obj.f |-> val_from_jsvalue(obj.f[n])]]]
    ELSE [rc |-> AS_NODE_PARAM_ERR, rec |-> rec]

\* ttl and gen of a metadata object; an absent member leaves the record's alone.
recordmeta_from_jsobject(rec, obj) ==
    [rc |-> AS_NODE_PARAM_OK,
     rec |-> [rec EXCEPT !.ttl = IF JsGet(obj, "ttl").t = "number" THEN JsGet(obj, "ttl").n ELSE @,
                         !.gen = IF JsGet(obj, "gen").t = "number" THEN JsGet(obj, "gen").n ELSE @]]

\* The sub-operations of operate(): operation, bin name and value of each.
operations_from_jsarray(arr) ==
    IF /\ arr.t = "array"
       /\ \A i \in 1..Len(arr.el) : JsGet(arr.el[i], "operation").t = "string"
    THEN [rc |-> AS_NODE_PARAM_OK,
          ops |-> [i \in 1..Len(arr.el) |->
                     [op |-> JsGet(arr.el[i], "operation").s,
                      bin |-> IF JsGet(arr.el[i], "binName").t = "string"
                              THEN JsGet(arr.el[i], "binName").s ELSE "",
                      value |-> IF JsGet(arr.el[i], "binValue").t \in {"string", "number"}
                                THEN val_from_jsvalue(JsGet(arr.el[i], "binValue"))
                                ELSE AsInteger(0)]]]
    ELSE [rc |-> AS_NODE_PARAM_ERR, ops |-> << >>]

error_to_jsobject(err) == JsObject([code |-> JsNumber(err.code)])

\* err.code, as a callback reads it from its first argument.
ErrorCode(argv) == argv.err.f.code.n

\* A record the store filled converts to its bins; as_record_init's empty record
\* to an empty object; anything else holds no defined bins.
val_to_jsvalue(val) ==
    IF val.type = "AS_STRING" THEN JsString(val.str) ELSE JsNumber(val.int)

recordbins_to_jsobject(rec) ==
    IF rec.st \in {"filled", "init"}
    THEN JsObject([n \in DOMAIN rec.bins |-> val_to_jsvalue(rec.bins[n])])
    ELSE JsGarbage

recordmeta_to_jsobject(rec) ==
    IF rec.st \in {"filled", "init"}
    THEN JsObject([ttl |-> JsNumber(rec.ttl), gen |-> JsNumber(rec.gen)])
    ELSE JsGarbage

\* as_record_init(rec, 0): an empty record, nothing on the heap.
as_record_init == [st |-> "init", bins |-> NoBins, gen |-> 0, ttl |-> 0]

\* strncpy(dst, src, n) into a fresh n-byte buffer: at most n characters, and a
\* terminating NUL only when src is shorter than n.
strncpy(src, n) ==
    [null |-> FALSE, chars |-> SubSeq(src, 1, Min(Len(src), n)), nul |-> Len(src) < n]

NullEntry == [null |-> TRUE, chars |-> "", nul |-> FALSE]

(***************************************************************************)
(* The machine state the stages work on                                    *)
(***************************************************************************)

St == [args |-> args, req |-> req, heap |-> heap, log |-> log, allocd |-> allocd,
       freed |-> freed, net |-> net, delivered |-> delivered, crashed |-> crashed,
       store |-> store, test |-> test, m |-> m]

Becomes(S) ==
    /\ args' = S.args
    /\ req' = S.req
    /\ heap' = S.heap
    /\ log' = S.log
    /\ allocd' = S.allocd
    /\ freed' = S.freed
    /\ net' = S.net
    /\ delivered' = S.delivered
    /\ crashed' = S.crashed
    /\ store' = S.store
    /\ test' = S.test
    /\ m' = S.m

Unallocated == [st |-> "unalloc"]
NoReq == [state |-> "none", data |-> 0, work |-> "", after |-> "", returned |-> FALSE]

\* `new AsyncData`: only the Persistent handle has a constructor.
NewAsyncData ==
    [st |-> "live", as |-> "uninit", err |-> ErrUninit, key |-> KeyUninit,
     rec |-> RecUninit, callback |-> [st |-> "empty", owner |-> 0, fn |-> JsUndefined],
     get_all_bins |-> [st |-> "uninit", v |-> FALSE],
     num_bins |-> [st |-> "uninit", v |-> 0],
     bins |-> [st |-> "uninit", arr |-> << >>],
     by |-> {}, worker |-> {}]

\* The addresses `new` may return: one that was never used (they are all alike,
\* so the lowest stands for them) or one that has been freed since.
NewAddr(S) ==
    {a \in Addr : \/ S.heap[a].st = "freed"
                  \/ /\ S.heap[a].st = "unalloc"
                     /\ \A b \in Addr : b < a => S.heap[b].st # "unalloc"}

Block(env, what, i) == [env |-> env, what |-> what, i |-> i]
Released(block, stage) == [block |-> block, by |-> stage]

\* Undefined behaviour that ends in a fault: the process is gone.
Crash(S, c, where) == [S EXCEPT !.crashed = TRUE, !.log[c] = @ \o <<where, "SIGSEGV">>]

(***************************************************************************)
(* prepare: get.cc 71-120                                                  *)
(***************************************************************************)

\* The envelope prepare builds at address `addr` for call c with arguments a.
prepare_data(c, a) ==
    LET d0 == [NewAsyncData EXCEPT !.as = "client.as", !.by = {c}]
        \* The parsers' return code is dropped.
        key == IF IsArray(a[1]) THEN key_from_jsarray(d0.key, a[1]).key
               ELSE IF IsObject(a[1]) THEN key_from_jsobject(d0.key, a[1]).key
               ELSE d0.key
        d1 == [d0 EXCEPT !.key = key, !.rec = as_record_init]
        d2 == IF Len(a) = 3 /\ IsArray(a[2])
              THEN LET num_bins == Len(a[2].el) IN
                   [d1 EXCEPT !.get_all_bins = [st |-> "set", v |-> FALSE],
                              !.num_bins = [st |-> "set", v |-> num_bins],
                              !.bins = [st |-> "alloc",
                                        arr |-> [i \in 1..(num_bins + 1) |->
                                                   IF i <= num_bins
                                                   THEN strncpy(a[2].el[i].s, AS_BIN_NAME_MAX_SIZE)
                                                   ELSE NullEntry]]]
              ELSE [d1 EXCEPT !.get_all_bins = [st |-> "set", v |-> TRUE]]
    IN [d2 EXCEPT !.callback = [st |-> "held", owner |-> c, fn |-> a[Len(a)]]]

\* The heap blocks prepare allocates for that envelope.
prepare_blocks(addr, d) ==
    {Block(addr, "AsyncData", 0)}
    \cup (IF d.key.st = "init" THEN {Block(addr, "key", 0)} ELSE {})
    \cup (IF d.bins.st = "alloc"
          THEN {Block(addr, "bins", 0)} \cup {Block(addr, "bin", i) : i \in 1..d.num_bins.v}
          ELSE {})

\* Mutant of prepare: a key the parsers reject is reported at once, by calling
\* the callback before prepare returns.
prepare_calls_back(S, c, a) ==
    LET d == prepare_data(c, a)
        bad == d.key.st # "init"
    IN {[S |-> [S EXCEPT !.heap[addr] = d,
                        !.allocd[c] = @ \cup prepare_blocks(addr, d),
                        !.delivered[c] = IF bad
                                         THEN Append(@, [err |-> error_to_jsobject(
                                                  [st |-> "set", code |-> as_status.AEROSPIKE_ERR_PARAM])])
                                         ELSE @,
                        !.log[c] = @ \o <<"prepare">>
                                     \o (IF bad THEN <<"callback">> ELSE << >>)
                                     \o <<"prepare.ret">>],
         data |-> addr] : addr \in NewAddr(S)}

\* prepare(args): the state it leaves and the pointer it returns, for each
\* address the allocator may give the envelope.
prepare(S, c, a) ==
    LET d == prepare_data(c, a)
    IN {[S |-> [S EXCEPT !.heap[addr] = d,
                         !.allocd[c] = @ \cup prepare_blocks(addr, d),
                         !.log[c] = @ \o <<"prepare", "prepare.ret">>],
         data |-> addr] : addr \in NewAddr(S)}

(***************************************************************************)
(* The store: aerospike_key_get / aerospike_key_select                     *)
(***************************************************************************)

\* One blocking call as the store sees it; the store fills in its reply.
StoreCall(fn, as, policy, key, bins) ==
    [fn |-> fn, as |-> as, policy |-> policy, key |-> key, bins |-> bins,
     replied |-> FALSE, status |-> 0]

\* A C string read from a bin-name buffer ends at its NUL; a buffer without one
\* is read past its end.
Terminated(bins) == \A i \in 1..Len(bins) : bins[i].null \/ bins[i].nul

\* The call's inputs are all defined values.
WellDefined(call) == call.key.st = "init" /\ Terminated(call.bins)

\* What identifies a record in the cluster: namespace, set and user key.
as_key_digest(key) == [ns |-> key.ns, set |-> key.set, value |-> key.value]

\* The keys the model's calls and tests use.
StoreKeys ==
    {as_key_digest(key_from_jsobject(KeyUninit, KeyObject).key),
     as_key_digest(key_from_jsarray(KeyUninit, KeyArray).key)}
    \cup {as_key_digest(key_from_jsobject(KeyUninit, TestKey(t, i)).key) :
             t \in Tests, i \in Calls}

Absent == [exists |-> FALSE, bins |-> NoBins, gen |-> 0, ttl |-> 0]

\* The statuses a blocking read can end with: the record is there or it is not,
\* or the call times out; a call on undefined inputs can end with any.
StoreStatuses(S, call) ==
    {as_status.AEROSPIKE_ERR_TIMEOUT}
    \cup (IF WellDefined(call)
          THEN (IF S.store[as_key_digest(call.key)].exists
                THEN {as_status.AEROSPIKE_OK}
                ELSE {as_status.AEROSPIKE_ERR_RECORD_NOT_FOUND})
          ELSE {as_status.AEROSPIKE_OK, as_status.AEROSPIKE_ERR_RECORD_NOT_FOUND,
                as_status.AEROSPIKE_ERR_PARAM})

\* The bin names a selecting call asks for, as the store reads them.
SelectedNames(call) ==
    {call.bins[i].chars : i \in {j \in 1..Len(call.bins) : call.bins[j].nul}}

\* The records a successful read can write through &rec: the one held under the
\* key (whichever record an undefined key happens to name), all its bins or the
\* selected ones.
StoreRecords(S, call) ==
    LET held == IF call.key.st = "init"
                THEN {S.store[as_key_digest(call.key)]}
                ELSE {S.store[k] : k \in {j \in StoreKeys : S.store[j].exists}} \cup {Absent}
        names(r) == IF call.fn = "aerospike_key_get" THEN DOMAIN r.bins
                    ELSE DOMAIN r.bins \cap SelectedNames(call)
    IN {[st |-> "filled", bins |-> [n \in names(r) |-> r.bins[n]],
         gen |-> r.gen, ttl |-> r.ttl] : r \in held}

\* aerospike_key_put: the bins of rec are written over those held, the
\* generation (uint16) goes up by one, the ttl is the one asked for.
aerospike_key_put(S, key, rec) ==
    LET k == as_key_digest(key)
        old == S.store[k]
    IN [S EXCEPT !.store[k] =
           [exists |-> TRUE,
            bins |-> [n \in DOMAIN old.bins \cup DOMAIN rec.bins |->
                        IF n \in DOMAIN rec.bins THEN rec.bins[n] ELSE old.bins[n]],
            gen |-> (old.gen + 1) % 65536,
            ttl |-> rec.ttl]]

\* One sub-operation applied to the bins of a record.
ApplyOp(bins, o) ==
    IF o.op = "INCR"
    THEN [n \in DOMAIN bins \cup {o.bin} |->
            IF n # o.bin THEN bins[n]
            ELSE IF n \in DOMAIN bins THEN AsInteger(bins[n].int + o.value.int)
            ELSE o.value]
    ELSE IF o.op = "WRITE"
    THEN [n \in DOMAIN bins \cup {o.bin} |-> IF n = o.bin THEN o.value ELSE bins[n]]
    ELSE bins

RECURSIVE ApplyOps(_, _)
ApplyOps(bins, ops) ==
    IF ops = << >> THEN bins ELSE ApplyOps(ApplyOp(bins, Head(ops)), Tail(ops))

\* aerospike_key_operate on a record the store holds: the sub-operations are
\* applied in order as one write, so the generation goes up by one.
aerospike_key_operate(S, key, ops, ttl) ==
    LET k == as_key_digest(key)
        old == S.store[k]
    IN [S EXCEPT !.store[k] =
           [exists |-> TRUE,
            bins |-> ApplyOps(old.bins, ops),
            gen |-> (old.gen + 1) % 65536,
            ttl |-> IF ttl = 0 THEN old.ttl ELSE ttl]]

\* aerospike_key_remove: the record is gone, or the call timed out.
aerospike_key_remove(S, key) ==
    {[S EXCEPT !.store[as_key_digest(key)] = Absent], S}

(***************************************************************************)
(* execute: get.cc 127-149, on a worker thread                             *)
(***************************************************************************)

\* Mutant of store_call: the else is lost, a selecting call follows every get.
store_call_both(d) ==
    (IF d.get_all_bins.v = TRUE
     THEN <<StoreCall("aerospike_key_get", d.as, "NULL", d.key, << >>)>>
     ELSE << >>)
    \o <<StoreCall("aerospike_key_select", d.as, "NULL", d.key, d.bins.arr)>>

\* The blocking call execute makes from the envelope's fields.
store_call(d) ==
    IF d.get_all_bins.v = TRUE
    THEN <<StoreCall("aerospike_key_get", d.as, "NULL", d.key, << >>)>>
    ELSE <<StoreCall("aerospike_key_select", d.as, "NULL", d.key, d.bins.arr)>>

\* The members of the envelope execute reads or takes the address of: 133-137,
\* the test of 139 and, on the selecting path, the bin-name array (146).
execute_fields(d) ==
    {"as", "err", "key", "rec", "get_all_bins"}
    \cup (IF d.get_all_bins.v = TRUE THEN {} ELSE {"bins"})

\* execute up to the point where the worker blocks in the store call.
execute_call(S, c) ==
    LET addr == S.req[c].data
        calls == store_call(S.heap[addr])
    IN {[S EXCEPT !.net[c] = @ \o calls,
                  !.heap[addr].by = @ \cup {c},
                  !.heap[addr].worker = @ \cup execute_fields(S.heap[addr]),
                  !.log[c] = @ \o <<"execute">> \o [i \in 1..Len(calls) |-> calls[i].fn]]}

\* Mutant of execute_return: a failed store call is reported at once, by calling
\* the retained callback from the worker thread.
execute_return_reports(S, c) ==
    LET addr == S.req[c].data
        last == Len(S.net[c])
        call == S.net[c][last]
    IN {[S EXCEPT !.net[c][last].replied = TRUE,
                  !.net[c][last].status = s,
                  !.heap[addr].err = [st |-> "set", code |-> s],
                  !.heap[addr].rec = IF s = as_status.AEROSPIKE_OK
                                     THEN r
                                     ELSE [@ EXCEPT !.st = "undefined"],
                  !.heap[addr].worker = @ \cup (IF s = as_status.AEROSPIKE_OK
                                                THEN {} ELSE {"callback"}),
                  !.delivered[c] = IF s = as_status.AEROSPIKE_OK THEN @
                                   ELSE Append(@, [err |-> error_to_jsobject([st |-> "set", code |-> s])]),
                  !.log[c] = @ \o <<"execute.ret">>] :
           s \in StoreStatuses(S, call), r \in StoreRecords(S, call)}
       \cup (IF WellDefined(call) THEN {} ELSE {Crash(S, c, call.fn)})

\* The store call returns: err and rec are written through the pointers execute
\* passed, and execute returns.  A call on a key that was never initialised, or
\* on a bin name without its NUL, reads indeterminate memory.
execute_return(S, c) ==
    LET addr == S.req[c].data
        last == Len(S.net[c])
        call == S.net[c][last]
    IN {[S EXCEPT !.net[c][last].replied = TRUE,
                  !.net[c][last].status = s,
                  !.heap[addr].err = [st |-> "set", code |-> s],
                  !.heap[addr].rec = IF s = as_status.AEROSPIKE_OK
                                     THEN r
                                     ELSE [@ EXCEPT !.st = "undefined"],
                  !.log[c] = @ \o <<"execute.ret">>] :
           s \in StoreStatuses(S, call), r \in StoreRecords(S, call)}
       \cup (IF WellDefined(call) THEN {} ELSE {Crash(S, c, call.fn)})

(***************************************************************************)
(* The JavaScript functions respond calls                                  *)
(***************************************************************************)

\* String.prototype.substr(from): the rest of the string from index `from`.
substr(str, from) == SubSeq(str, from + 1, Len(str))

IsDigit(ch) == \E d \in 1..10 : Digits[d] = ch
DigitValue(ch) == (CHOOSE d \in 1..10 : Digits[d] = ch) - 1
JsNaN == [t |-> "NaN"]

\* parseInt(str): the number its leading decimal digits spell, NaN without one.
RECURSIVE ParseDigits(_, _)
ParseDigits(str, acc) ==
    IF Len(str) = 0 \/ ~IsDigit(SubSeq(str, 1, 1)) THEN acc
    ELSE ParseDigits(substr(str, 1), 10 * acc + DigitValue(SubSeq(str, 1, 1)))

parseInt(str) ==
    IF Len(str) = 0 \/ ~IsDigit(SubSeq(str, 1, 1)) THEN JsNaN
    ELSE JsNumber(ParseDigits(str, 0))

\* The expectations of the function a test passes to client.get, on the
\* arguments (err, rec, meta, key3) it is called with: every expect() passes.
\* INCR, 243-246; TOUCH, 337-343.
GetExpectations(t, argv) ==
    /\ argv.err.t = "object"
    /\ JsGet(argv.err, "code") = JsNumber(AEROSPIKE_OK)
    /\ IF t = "INCR"
       THEN /\ JsGet(argv.key, "key").t = "string"
            /\ LET num == parseInt(substr(JsGet(argv.key, "key").s, 4))
               IN /\ num.t = "number"
                  /\ JsGet(argv.bins, "integer_bin") = JsNumber(num.n + 10)
       ELSE /\ JsGet(argv.meta, "ttl").t = "number"
            /\ \/ JsGet(argv.meta, "ttl").n = 10000
               \/ /\ JsGet(argv.meta, "ttl").n > 9000
                  /\ JsGet(argv.meta, "ttl").n < 10000
            /\ JsGet(argv.meta, "gen") = JsNumber(2)

\* CleanRecords(t) of test.js: a remove is issued for each record of the test.
CleanRecords(S, t) ==
    [S EXCEPT !.test = [i \in Calls |-> [S.test[i] EXCEPT !.pc = "clean"]]]

\* The function of 242-252 and 336-349 called with argv: a failed expectation
\* throws; the n-th call that meets them all resets m and cleans up.
test_get_callback(S, t, argv) ==
    IF ~GetExpectations(t, argv) THEN [S |-> S, threw |-> TRUE]
    ELSE IF S.m + 1 = TestN
    THEN [S |-> CleanRecords([S EXCEPT !.m = 0], t), threw |-> FALSE]
    ELSE [S |-> [S EXCEPT !.m = @ + 1], threw |-> FALSE]

\* data->callback->Call(global, 4, argv) under the TryCatch: the state the
\* function leaves and whether it threw.
Call(S, fn, argv) ==
    IF fn.body = "return" THEN [S |-> S, threw |-> FALSE]
    ELSE IF fn.body = "throw" THEN [S |-> S, threw |-> TRUE]
    ELSE test_get_callback(S, fn.body, argv)

(***************************************************************************)
(* respond: get.cc 159-200, on the event-loop thread                       *)
(***************************************************************************)

\* Mutant of respond_argv: the error object is built from a fresh as_error.
respond_argv_fresh_error(d, jskey) ==
    [err |-> error_to_jsobject([st |-> "set", code |-> AEROSPIKE_OK]),
     bins |-> recordbins_to_jsobject(d.rec),
     meta |-> recordmeta_to_jsobject(d.rec),
     key |-> jskey]

\* Mutant of respond_argv: bins and metadata are converted from a record that was
\* only initialised, not from the one the store call filled.
respond_argv_fresh_record(d, jskey) ==
    [err |-> IF d.err.st = "set" THEN error_to_jsobject(d.err) ELSE JsGarbage,
     bins |-> recordbins_to_jsobject(as_record_init),
     meta |-> recordmeta_to_jsobject(as_record_init),
     key |-> jskey]

\* Mutant of respond_argv: bins and metadata change places in argv.
respond_argv_swapped(d, jskey) ==
    [err |-> IF d.err.st = "set" THEN error_to_jsobject(d.err) ELSE JsGarbage,
     bins |-> recordmeta_to_jsobject(d.rec),
     meta |-> recordbins_to_jsobject(d.rec),
     key |-> jskey]

\* The four callback arguments (171-176), given the converted key.
respond_argv(d, jskey) ==
    [err |-> IF d.err.st = "set" THEN error_to_jsobject(d.err) ELSE JsGarbage,
     bins |-> recordbins_to_jsobject(d.rec),
     meta |-> recordmeta_to_jsobject(d.rec),
     key |-> jskey]

\* Mutant of respond_free: the envelope is deleted before the record in it is
\* destroyed.
respond_free_early(S, c, addr) ==
    [S EXCEPT !.heap[addr].rec.st = "destroyed",
              !.heap[addr].st = "freed",
              !.freed[c] = Append(@, Released(Block(addr, "AsyncData", 0), "respond")),
              !.req[c].state = "freed",
              !.log[c] = @ \o <<"delete data", "as_record_destroy", "delete req", "respond.ret">>]

\* 189-199: as_record_destroy, delete data, delete req.
respond_free(S, c, addr) ==
    [S EXCEPT !.heap[addr].rec.st = "destroyed",
              !.heap[addr].st = "freed",
              !.freed[c] = Append(@, Released(Block(addr, "AsyncData", 0), "respond")),
              !.req[c].state = "freed",
              !.log[c] = @ \o <<"as_record_destroy", "delete data", "delete req", "respond.ret">>]

\* node::FatalException(try_catch), 186: with an 'uncaughtException' listener
\* installed the exception goes to the listener and FatalException returns;
\* with none the error is printed and the process exits there.
FatalException(S, c) ==
    LET S1 == [S EXCEPT !.log[c] = @ \o <<"FatalException">>]
    IN {S1, [S1 EXCEPT !.crashed = TRUE, !.log[c] = @ \o <<"exit">>]}

\* 189-199: the handle is disposed, the key destroyed, then respond_free.
\* as_key_destroy of a key that was never initialised frees whatever its
\* indeterminate flags say: nothing, or a fault.
respond_destroy(S, c, addr) ==
    LET S1 == [S EXCEPT !.heap[addr].callback.st = "disposed",
                        !.log[c] = @ \o <<"Dispose", "as_key_destroy">>]
    IN IF S.heap[addr].key.st = "init"
       THEN {respond_free([S1 EXCEPT !.heap[addr].key.st = "destroyed",
                                     !.freed[c] = Append(@, Released(Block(addr, "key", 0), "respond"))],
                          c, addr)}
       ELSE {respond_free(S1, c, addr), Crash(S1, c, "free")}

\* 178-199: the callback is called inside a TryCatch; what it threw goes to
\* node::FatalException; if the process is still there the clean-up follows.
respond_call(S, c, addr, jskey) ==
    LET d == S.heap[addr]
        argv == respond_argv(d, jskey)
        r == Call([S EXCEPT !.delivered[d.callback.owner] = Append(@, argv),
                            !.log[c] = @ \o <<"callback">>],
                  d.callback.fn, argv)
        caught == IF r.threw THEN FatalException(r.S, c) ELSE {r.S}
    IN UNION {IF S1.crashed THEN {S1} ELSE respond_destroy(S1, c, addr) : S1 \in caught}

\* Mutant of respond: the key argument is converted from the key member of the
\* record, which a read does not fill, instead of from data->key.
respond_key_of_record(S, c) ==
    LET addr == S.req[c].data
        d == S.heap[addr]
        S0 == [S EXCEPT !.heap[addr].by = @ \cup {c},
                        !.log[c] = @ \o <<"respond", "error_to_jsobject", "recordbins_to_jsobject",
                                          "recordmeta_to_jsobject", "key_to_jsobject">>]
    IN respond_call(S0, c, addr, key_to_jsobject(KeyUninit))

\* The whole of respond.  key_to_jsobject of a key that was never initialised
\* reads indeterminate memory: some object, or a fault.
respond(S, c) ==
    LET addr == S.req[c].data
        d == S.heap[addr]
        S0 == [S EXCEPT !.heap[addr].by = @ \cup {c},
                        !.log[c] = @ \o <<"respond", "error_to_jsobject", "recordbins_to_jsobject",
                                          "recordmeta_to_jsobject", "key_to_jsobject">>]
    IN IF d.key.st = "init"
       THEN respond_call(S0, c, addr, key_to_jsobject(d.key))
       ELSE respond_call(S0, c, addr, JsGarbage) \cup {Crash(S0, c, "read")}

(***************************************************************************)
(* async_invoke (util/async.h) and libuv's work queue                      *)
(***************************************************************************)

\* req = new uv_work_t; req->data = prepare(args);
\* uv_queue_work(loop, req, execute, respond): from here on a worker thread may
\* take the request, while the event-loop thread is still on its way out of Get.
async_invoke(S, c, a, work_cb, after_work_cb) ==
    {[p.S EXCEPT !.req[c] = [state |-> "queued", data |-> p.data,
                             work |-> work_cb, after |-> after_work_cb,
                             returned |-> FALSE],
                 !.log[c] = @ \o <<"uv_queue_work">>] : p \in prepare(S, c, a)}

\* return Undefined(): control is back with the JavaScript caller.
async_return(S, c) ==
    [S EXCEPT !.req[c].returned = TRUE]

\* The event-loop thread is inside a Get that has not returned yet.
InGet(S) == \E c \in Calls : S.req[c].state # "none" /\ ~S.req[c].returned

\* Mutant of Get: execute and respond are handed over in the wrong order.
Get_swapped(S, c, a) == async_invoke([S EXCEPT !.args[c] = a], c, a, "respond", "execute")

\* AerospikeClient::Get, get.cc 209-212.
Get(S, c, a) == async_invoke([S EXCEPT !.args[c] = a], c, a, "execute", "respond")

\* A stage called through its function pointer: up to where it blocks, and from
\* there to its return.  Only execute blocks.
StageBegin(fn, S, c) == IF fn = "execute" THEN execute_call(S, c) ELSE respond(S, c)
StageEnd(fn, S, c) == IF fn = "execute" /\ ~S.crashed THEN execute_return(S, c) ELSE {S}

(***************************************************************************)
(* put() and operate().  Their pipelines have the shape of get's: parse,    *)
(* one blocking store call, callback with the error, the result and the    *)
(* key.  Each operator gives the outcomes of the store call: the state the *)
(* store is left in and the arguments the callback will be called with.    *)
(***************************************************************************)

\* client.put(key, bins, metadata, callback): what the callback receives
\* (err, meta, key) and the state the store is left in.
put(S, a) ==
    LET k == key_from_jsobject(KeyUninit, a[1])
        b == recordbins_from_jsobject(as_record_init, a[2])
        md == recordmeta_from_jsobject(b.rec, a[3])
        argv(code) == [err |-> error_to_jsobject([st |-> "set", code |-> code]),
                       meta |-> recordmeta_to_jsobject(md.rec),
                       key |-> IF k.rc = AS_NODE_PARAM_OK THEN key_to_jsobject(k.key)
                               ELSE JsUndefined]
    IN IF k.rc # AS_NODE_PARAM_OK \/ b.rc # AS_NODE_PARAM_OK
       THEN {[S |-> S, argv |-> argv(as_status.AEROSPIKE_ERR_PARAM)]}
       ELSE {[S |-> aerospike_key_put(S, k.key, md.rec), argv |-> argv(as_status.AEROSPIKE_OK)],
             [S |-> S, argv |-> argv(as_status.AEROSPIKE_ERR_TIMEOUT)]}

\* client.operate(key, ops, [metadata,] callback): what the callback receives
\* (err, bins, meta, key) and the state the store is left in.
operate(S, a) ==
    LET k == key_from_jsobject(KeyUninit, a[1])
        o == operations_from_jsarray(a[2])
        md == IF Len(a) = 4 THEN recordmeta_from_jsobject(as_record_init, a[3]).rec
             ELSE as_record_init
        S1 == aerospike_key_operate(S, k.key, o.ops, md.ttl)
        argv(code, r) == [err |-> error_to_jsobject([st |-> "set", code |-> code]),
                          bins |-> recordbins_to_jsobject(r),
                          meta |-> recordmeta_to_jsobject(r),
                          key |-> IF k.rc = AS_NODE_PARAM_OK THEN key_to_jsobject(k.key)
                                  ELSE JsUndefined]
    IN IF k.rc # AS_NODE_PARAM_OK \/ o.rc # AS_NODE_PARAM_OK
       THEN {[S |-> S, argv |-> argv(as_status.AEROSPIKE_ERR_PARAM, as_record_init)]}
       ELSE IF ~S.store[as_key_digest(k.key)].exists
       THEN {[S |-> S, argv |-> argv(as_status.AEROSPIKE_ERR_RECORD_NOT_FOUND, as_record_init)],
             [S |-> S, argv |-> argv(as_status.AEROSPIKE_ERR_TIMEOUT, as_record_init)]}
       ELSE {[S |-> S1,
              argv |-> argv(as_status.AEROSPIKE_OK,
                            [st |-> "filled", bins |-> NoBins,
                             gen |-> S1.store[as_key_digest(k.key)].gen,
                             ttl |-> S1.store[as_key_digest(k.key)].ttl])],
             [S |-> S, argv |-> argv(as_status.AEROSPIKE_ERR_TIMEOUT, as_record_init)]}

(***************************************************************************)
(* Actions                                                                 *)
(***************************************************************************)

NoTest == [pc |-> "none", t |-> "", argv |-> [err |-> JsUndefined, key |-> JsUndefined]]

Init ==
    /\ args = [c \in Calls |-> << >>]
    /\ req = [c \in Calls |-> NoReq]
    /\ heap = [a \in Addr |-> Unallocated]
    /\ log = [c \in Calls |-> << >>]
    /\ allocd = [c \in Calls |-> {}]
    /\ freed = [c \in Calls |-> << >>]
    /\ net = [c \in Calls |-> << >>]
    /\ delivered = [c \in Calls |-> << >>]
    /\ crashed = FALSE
    /\ store = [k \in StoreKeys |->
                  IF k = as_key_digest(key_from_jsobject(KeyUninit, KeyObject).key)
                  THEN [exists |-> TRUE,
                        bins |-> [integer_bin |-> AsInteger(1), string_bin |-> AsString("1")],
                        gen |-> 1, ttl |-> 1000]
                  ELSE Absent]
    /\ test = [i \in Calls |-> NoTest]
    /\ m = 0

\* JavaScript calls client.get(...): calls are numbered in the order of issue.
client_get(c, i) ==
    /\ ~crashed
    /\ req[c].state = "none"
    /\ ~InGet(St)
    /\ \A b \in Calls : b < c => req[b].state # "none"
    /\ \E S \in Get(St, c, ArgLists[i]) : Becomes(S)

\* Get returns to its JavaScript caller.
client_get_return(c) ==
    /\ ~crashed
    /\ req[c].state # "none"
    /\ ~req[c].returned
    /\ Becomes(async_return(St, c))

\* A worker thread takes the request off the queue and runs work_cb until it
\* blocks in the store call.
uv_work_start(c) ==
    /\ ~crashed
    /\ req[c].state = "queued"
    /\ \E S \in StageBegin(req[c].work, St, c) :
          Becomes([S EXCEPT !.req[c].state = IF @ = "queued" THEN "working" ELSE @])

\* The store call returns and work_cb with it; the loop is told.
uv_work_done(c) ==
    /\ ~crashed
    /\ req[c].state = "working"
    /\ \E S \in StageEnd(req[c].work, St, c) :
          Becomes([S EXCEPT !.req[c].state = IF @ = "working" THEN "worked" ELSE @])

\* Mutant of uv_after_work: completions are handed out in the order of issue.
uv_after_work_in_order(c) ==
    /\ ~crashed
    /\ req[c].state = "worked"
    /\ ~InGet(St)
    /\ \A a \in Calls : a < c => req[a].state = "freed"
    /\ \E S1 \in StageBegin(req[c].after, St, c) :
       \E S \in StageEnd(req[c].after, S1, c) :
          Becomes([S EXCEPT !.req[c].state = IF @ = "worked" THEN "done" ELSE @])

\* The event loop, back from whatever JavaScript it was running, runs
\* after_work_cb.
uv_after_work(c) ==
    /\ ~crashed
    /\ req[c].state = "worked"
    /\ ~InGet(St)
    /\ \E S1 \in StageBegin(req[c].after, St, c) :
       \E S \in StageEnd(req[c].after, S1, c) :
          Becomes([S EXCEPT !.req[c].state = IF @ = "worked" THEN "done" ELSE @])

Next ==
    \/ \E c \in Calls, i \in DOMAIN ArgLists : client_get(c, i)
    \/ \E c \in Calls : client_get_return(c)
    \/ \E c \in Calls : uv_work_start(c)
    \/ \E c \in Calls : uv_work_done(c)
    \/ \E c \in Calls : uv_after_work(c)

Spec == Init /\ [][Next]_vars

(***************************************************************************)
(* The put -> operate -> get tests (get.cc 230-258 and 323-355), run       *)
(* against an empty store.  Iteration i issues its get as call i.          *)
(***************************************************************************)

TestInit ==
    /\ args = [c \in Calls |-> << >>]
    /\ req = [c \in Calls |-> NoReq]
    /\ heap = [a \in Addr |-> Unallocated]
    /\ log = [c \in Calls |-> << >>]
    /\ allocd = [c \in Calls |-> {}]
    /\ freed = [c \in Calls |-> << >>]
    /\ net = [c \in Calls |-> << >>]
    /\ delivered = [c \in Calls |-> << >>]
    /\ crashed = FALSE
    /\ store = [k \in StoreKeys |-> Absent]
    /\ test = [i \in Calls |-> [NoTest EXCEPT !.pc = "start"]]
    /\ m = 0

\* The test function has returned to the event loop: its for loop has issued
\* every put.  No callback runs before that.
TestReturned(S) == \A j \in Calls : S.test[j].pc # "start"

\* The arguments of the put and of the operate of iteration i.
PutArgs(t, i) == <<TestKey(t, i), GetRecordBins(i), GetRecordMetadata(i), Callback>>
OperateArgs(t, key1) == <<key1, TestOps(t)>> \o TestMeta(t) \o <<Callback>>

\* Iteration i of the for loop (233-236): client.put(Key, rec.bins,
\* rec.metadata, function ...) queues its work and returns.  The iterations of
\* one run are those of one test.
test_put(i, t) ==
    /\ ~crashed
    /\ test[i].pc = "start"
    /\ ~InGet(St)
    /\ \A j \in Calls : /\ j < i => test[j].pc # "start"
                        /\ test[j].t \in {"", t}
    /\ Becomes([St EXCEPT !.test[i].pc = "put", !.test[i].t = t])

\* A worker thread serves the put: the store call is made and returns.
put_work(i) ==
    /\ ~crashed
    /\ test[i].pc = "put"
    /\ \E o \in put(St, PutArgs(test[i].t, i)) :
          Becomes([o.S EXCEPT !.test[i].pc = "put.worked", !.test[i].argv = o.argv])

\* The callback of put (236-255): on success it calls client.operate(key1, ops,
\* ...), which queues its work and returns; otherwise it does nothing.
test_operate(i) ==
    /\ ~crashed
    /\ test[i].pc = "put.worked"
    /\ TestReturned(St)
    /\ ~InGet(St)
    /\ IF ErrorCode(test[i].argv) = AEROSPIKE_OK
       THEN Becomes([St EXCEPT !.test[i].pc = "operate"])
       ELSE Becomes([St EXCEPT !.test[i].pc = "done"])

\* A worker thread serves the operate.
operate_work(i) ==
    /\ ~crashed
    /\ test[i].pc = "operate"
    /\ \E o \in operate(St, OperateArgs(test[i].t, test[i].argv.key)) :
          Becomes([o.S EXCEPT !.test[i].pc = "operate.worked", !.test[i].argv = o.argv])

\* The callback of operate (239-253): it expects success, and throws without;
\* what it throws ends the process unless a listener takes it.  On success it
\* calls client.get(key2, function ...).
test_get(i) ==
    /\ ~crashed
    /\ test[i].pc = "operate.worked"
    /\ TestReturned(St)
    /\ ~InGet(St)
    /\ req[i].state = "none"
    /\ IF ErrorCode(test[i].argv) = AEROSPIKE_OK
       THEN \E S \in Get([St EXCEPT !.test[i].pc = "get"], i,
                          <<test[i].argv.key, GetCallback(test[i].t)>>) : Becomes(S)
       ELSE \/ Becomes([St EXCEPT !.test[i].pc = "failed"])
            \/ Becomes([St EXCEPT !.test[i].pc = "failed", !.crashed = TRUE])

\* A worker thread serves the remove CleanRecords issued for iteration i.
remove_work(i) ==
    /\ ~crashed
    /\ test[i].pc = "clean"
    /\ \E S \in aerospike_key_remove(St, KeyOf(TestKey(test[i].t, i)).key) :
          Becomes([S EXCEPT !.test[i].pc = "removed"])

TestNext ==
    \/ \E i \in Calls, t \in Tests : test_put(i, t)
    \/ \E i \in Calls : put_work(i)
    \/ \E i \in Calls : test_operate(i)
    \/ \E i \in Calls : operate_work(i)
    \/ \E i \in Calls : test_get(i)
    \/ \E i \in Calls : remove_work(i)
    \/ \E c \in Calls : client_get_return(c)
    \/ \E c \in Calls : uv_work_start(c)
    \/ \E c \in Calls : uv_work_done(c)
    \/ \E c \in Calls : uv_after_work(c)

TestSpec == TestInit /\ [][TestNext]_vars

(***************************************************************************)
(* Vocabulary of the properties                                            *)
(***************************************************************************)

Range(seq) == {seq[i] : i \in 1..Len(seq)}
IsPrefix(s, t) == Len(s) <= Len(t) /\ SubSeq(t, 1, Len(s)) = s

Issued(c) == req[c].state # "none"
\* respond has returned for call c.
Responded(c) == req[c].state = "freed"
\* The work request of call c exists; its data pointer is the envelope of c.
Holds(c) == req[c].state \notin {"none", "freed"}
Envelope(c) == heap[req[c].data]
\* Nothing more will happen for call c.
Over(c) == Issued(c) /\ (crashed \/ Responded(c))

\* The first argument is no key the parsers accept.
MalformedKey(a) ==
    ~ \/ IsArray(a[1]) /\ key_from_jsarray(KeyUninit, a[1]).rc = AS_NODE_PARAM_OK
      \/ ~IsArray(a[1]) /\ IsObject(a[1]) /\ key_from_jsobject(KeyUninit, a[1]).rc = AS_NODE_PARAM_OK

\* The policy object among the arguments between the key and the callback.
Policies(a) == {a[i] : i \in {j \in 2..(Len(a) - 1) : a[j].t = "object"}}

\* Two JavaScript keys with the same namespace, set and user key.
SameKey(v, w) == KeyOf(v).rc = AS_NODE_PARAM_OK /\ KeyOf(v) = KeyOf(w)

\* The generation of the record the store holds under a JavaScript key.
StoredGen(v) == store[as_key_digest(KeyOf(v).key)].gen

\* The call selects bins (three arguments, the second an array).
SelectsBins(a) == Len(a) = 3 /\ IsArray(a[2])
\* One of the selected names does not fit a bin-name buffer with its NUL.
LongBinName(a) ==
    SelectsBins(a) /\ \E i \in 1..Len(a[2].el) : Len(a[2].el[i].s) >= AS_BIN_NAME_MAX_SIZE

\* What respond does, in the order of its statements.
RespondSteps ==
    <<"respond", "error_to_jsobject", "recordbins_to_jsobject", "recordmeta_to_jsobject",
      "key_to_jsobject", "callback", "Dispose", "as_key_destroy", "as_record_destroy",
      "delete data", "delete req", "respond.ret">>
RespondStepSet == Range(RespondSteps)
IsRespondStep(e) == e \in RespondStepSet
\* The same when the callback throws: node::FatalException comes between the
\* call and Dispose, and either returns or ends the process.
RespondStepsThrown ==
    SubSeq(RespondSteps, 1, 6) \o <<"FatalException">> \o SubSeq(RespondSteps, 7, 12)
RespondStepsExit == SubSeq(RespondSteps, 1, 6) \o <<"FatalException", "exit">>
RespondEventSet == RespondStepSet \cup {"FatalException", "exit"}
IsRespondEvent(e) == e \in RespondEventSet

StoreFunctions == {"aerospike_key_get", "aerospike_key_select"}
\* Entry i of a call's log is a store call being made (not the place of a fault).
IsStoreCall(l, i) ==
    /\ l[i] \in StoreFunctions
    /\ i < Len(l) => l[i + 1] # "SIGSEGV"

\* The members of AsyncData that are C structures of the store client.
NativeFields == {"as", "err", "key", "rec", "get_all_bins", "bins"}

StageEvents == <<"prepare", "prepare.ret", "execute", "execute.ret", "respond", "respond.ret">>
StageEventSet == Range(StageEvents)
IsStageEvent(e) == e \in StageEventSet

(***************************************************************************)
(* Claims                                                                  *)
(***************************************************************************)

\* C1: the callback of every get call is invoked, and invoked exactly once,
\* whatever the store call ends with: it is never invoked twice, and once
\* nothing more will happen for the call it has been invoked once.
C1_CallbackExactlyOnce ==
    \A c \in Calls :
        /\ Len(delivered[c]) <= 1
        /\ Over(c) => Len(delivered[c]) = 1

\* C2: for a malformed key no store call is made, and the callback fires exactly
\* once, with a parameter-error code.
C2_MalformedKeyRejected ==
    \A c \in Calls :
        (Issued(c) /\ MalformedKey(args[c])) =>
            /\ net[c] = << >>
            /\ Len(delivered[c]) <= 1
            /\ Over(c) => /\ Len(delivered[c]) = 1
                          /\ delivered[c][1].err.t = "object"
                          /\ ErrorCode(delivered[c][1]) \in
                                {AS_NODE_PARAM_ERR, as_status.AEROSPIKE_ERR_PARAM}

\* C3: once respond has returned, every heap block prepare allocated for the call
\* (envelope, key contents, bin-name array, bin-name buffers) has been released
\* by respond, and execute releases none of them.
C3_PrepareAllocationsReleased ==
    \A c \in Calls :
        /\ \A r \in Range(freed[c]) : r.by # "execute"
        /\ Responded(c) =>
              \A b \in allocd[c] : [block |-> b, by |-> "respond"] \in Range(freed[c])

\* C4: when the store call ended with a non-success status, respond does not
\* read the record: it builds neither bins nor metadata from it.
C4_RecordNotReadOnFailure ==
    \A c \in Calls :
        (/\ net[c] # << >>
         /\ net[c][Len(net[c])].replied
         /\ net[c][Len(net[c])].status # AEROSPIKE_OK) =>
            /\ "recordbins_to_jsobject" \notin Range(log[c])
            /\ "recordmeta_to_jsobject" \notin Range(log[c])

\* C5: when the callback throws, the rest of respond still runs: the callback
\* reference is released, key and record are destroyed, the envelope and the
\* work request are freed.
C5_CleanupAfterThrow ==
    \A c \in Calls :
        "FatalException" \in Range(log[c]) =>
            /\ SelectSeq(log[c], IsRespondStep) = RespondSteps
            /\ Released(Block(req[c].data, "AsyncData", 0), "respond") \in Range(freed[c])
            /\ req[c].state = "freed"

\* C6: for one envelope the stages run in the order prepare, execute, respond,
\* each at most once and none starting before the one before it has returned;
\* only the stages of one call ever touch the envelope.
C6_StagesInOrder ==
    \A c \in Calls :
        /\ IsPrefix(SelectSeq(log[c], IsStageEvent), StageEvents)
        /\ Holds(c) => Envelope(c).by = {c}

\* C6 witness: one call has gone through all three stages while the store call of
\* the other is still in flight.
C6_Witness ==
    \E c, b \in Calls :
        /\ SelectSeq(log[c], IsStageEvent) = StageEvents
        /\ req[b].state = "working"

\* C7: M concurrent calls give exactly M callback invocations, one per call; each
\* call has an envelope of its own that only its own stages touch, and nothing
\* is destroyed twice.
C7_ConcurrentCallsEachOnce ==
    /\ \A c \in Calls : Len(delivered[c]) <= 1
    /\ \A c, b \in Calls : (Holds(c) /\ Holds(b) /\ c # b) => req[c].data # req[b].data
    /\ \A c \in Calls : Holds(c) => Envelope(c).by = {c}
    /\ \A c \in Calls : \A i, j \in 1..Len(freed[c]) :
          freed[c][i].block = freed[c][j].block => i = j
    /\ (\A c \in Calls : Over(c)) => \A c \in Calls : Len(delivered[c]) = 1

\* C8: the first callback argument is the error object of the envelope's error
\* slot, and its code is the status the store call ended with: 0 on success, the
\* store's failure code otherwise.
C8_ErrorCodeIsStoreStatus ==
    \A c \in Calls : \A i \in 1..Len(delivered[c]) :
        /\ net[c] # << >>
        /\ net[c][Len(net[c])].replied
        /\ delivered[c][i].err = JsObject([code |-> JsNumber(net[c][Len(net[c])].status)])

\* C8 witness: one callback has received a store failure code and another 0.
C8_Witness ==
    \E c, b \in Calls :
        /\ delivered[c] # << >> /\ delivered[b] # << >>
        /\ net[c][1].status = as_status.AEROSPIKE_ERR_RECORD_NOT_FOUND
        /\ ErrorCode(delivered[c][1]) = as_status.AEROSPIKE_ERR_RECORD_NOT_FOUND
        /\ net[b][1].status = AEROSPIKE_OK
        /\ ErrorCode(delivered[b][1]) = AEROSPIKE_OK

\* C9: a policy object with a timeout among the arguments reaches the store call:
\* the call is given that policy, not NULL.
C9_PolicyForwarded ==
    \A c \in Calls : \A i \in 1..Len(net[c]) :
        Policies(args[c]) # {} => net[c][i].policy # "NULL"

\* C10: execute makes exactly one blocking store call per get call: the
\* full-record get when the envelope wants all bins, the bin-selecting call
\* otherwise.
C10_ExactlyOneStoreCall ==
    \A c \in Calls :
        IF "execute" \in Range(log[c])
        THEN /\ Len(net[c]) = 1
             /\ Holds(c) => net[c][1].fn = IF Envelope(c).get_all_bins.v
                                           THEN "aerospike_key_get" ELSE "aerospike_key_select"
        ELSE net[c] = << >>

\* C10 witness: a call that selected bins has made its one bin-selecting call and
\* a call that did not its one full-record get; both have returned.
C10_Witness ==
    \E c, b \in Calls :
        /\ "execute.ret" \in Range(log[c]) /\ "execute.ret" \in Range(log[b])
        /\ Holds(c) /\ ~Envelope(c).get_all_bins.v /\ net[c][1].fn = "aerospike_key_select"
        /\ Holds(b) /\ Envelope(b).get_all_bins.v /\ net[b][1].fn = "aerospike_key_get"

\* C11: execute touches only the native members of the envelope (store handle,
\* error, key, record, get_all_bins, bin-name array).  From the moment Get has
\* queued the work until respond starts, the retained callback reference is
\* what prepare left (held, for this call's function), nothing has been
\* delivered to JavaScript and the arguments of the call are as passed.
C11_ExecuteFrame ==
    \A c \in Calls :
        Holds(c) =>
            /\ Envelope(c).worker \subseteq NativeFields
            /\ req[c].state \in {"queued", "working", "worked"} =>
                  /\ Envelope(c).callback =
                        [st |-> "held", owner |-> c, fn |-> args[c][Len(args[c])]]
                  /\ delivered[c] = << >>

\* C11 witness: execute has run to its end on the selecting path for a store call
\* that failed, and respond has not started.
C11_Witness ==
    \E c \in Calls :
        /\ req[c].state = "worked"
        /\ "execute.ret" \in Range(log[c])
        /\ net[c][1].status # AEROSPIKE_OK
        /\ Envelope(c).worker = NativeFields

\* C12 as stated: while Get has not returned to its caller the callback has not
\* been invoked and no store call has been made.
C12_NothingBeforeReturn ==
    \A c \in Calls :
        (Issued(c) /\ ~req[c].returned) =>
            /\ delivered[c] = << >>
            /\ net[c] = << >>

\* C12 amended: while Get has not returned the callback has not been invoked;
\* prepare does nothing but parse and retain (the call's log starts with prepare,
\* its return and the queueing of the work, also for a malformed key), and every
\* store call is made from inside execute, on the worker thread.
C12_CallbackAfterReturn ==
    \A c \in Calls :
        Issued(c) =>
            /\ IsPrefix(<<"prepare", "prepare.ret", "uv_queue_work">>, log[c])
            /\ \A i \in 1..Len(log[c]) :
                  IsStoreCall(log[c], i) => (i > 3 /\ log[c][i - 1] = "execute")
            /\ ~req[c].returned => /\ delivered[c] = << >>
                                   /\ "callback" \notin Range(log[c])

\* C12 witness: a call with a malformed key whose Get returned before anything was
\* delivered has since had its callback invoked, from respond.
C12_Witness ==
    \E c \in Calls :
        /\ req[c].returned
        /\ MalformedKey(args[c])
        /\ Len(delivered[c]) = 1
        /\ "respond" \in Range(log[c])

\* C13: the key a callback receives as its last argument is the key the caller
\* passed to that operation (same namespace, set and user key).  In the
\* put -> operate -> get tests the key put's callback received, the key operate's
\* callback received and the key get's callback received are all the key the
\* test started from, and the store call of the get names that record.
C13_KeyRoundTrip ==
    \A i \in Calls :
        /\ test[i].pc \notin {"none", "start", "put"} =>
              SameKey(test[i].argv.key, TestKey(test[i].t, i))
        /\ \A j \in 1..Len(net[i]) :
              as_key_digest(net[i][j].key) = as_key_digest(KeyOf(TestKey(test[i].t, i)).key)
        /\ \A j \in 1..Len(delivered[i]) :
              /\ SameKey(delivered[i][j].key, args[i][1])
              /\ SameKey(delivered[i][j].key, TestKey(test[i].t, i))

\* C13 witness: an iteration has gone through put, operate and get, and the
\* callback of the get has received the key the test started from.
C13_Witness ==
    \E i \in Calls :
        /\ test[i].pc = "get"
        /\ Len(delivered[i]) = 1
        /\ ErrorCode(delivered[i][1]) = AEROSPIKE_OK
        /\ delivered[i][1].key = TestKey(test[i].t, i)

\* C14: in the INCR test, where put wrote integer_bin = v and one successful
\* operate applied a single INCR of 10 to it, a successful get of the same key
\* delivers integer_bin = v + 10: the expectations of the test's callback are
\* met and it does not throw.
C14_IncrAddsTen ==
    \A i \in Calls : \A j \in 1..Len(delivered[i]) :
        (test[i].t = "INCR" /\ ErrorCode(delivered[i][j]) = AEROSPIKE_OK) =>
            /\ delivered[i][j].bins.t = "object"
            /\ "integer_bin" \in DOMAIN delivered[i][j].bins.f
            /\ delivered[i][j].bins.f["integer_bin"] =
                  JsNumber(JsGet(GetRecordBins(i), "integer_bin").n + 10)
            /\ GetExpectations("INCR", delivered[i][j])
            /\ "FatalException" \notin Range(log[i])

\* C14 witness: the get of an INCR iteration has succeeded and delivered the
\* incremented bin.
C14_Witness ==
    \E i \in Calls :
        /\ test[i].t = "INCR"
        /\ Len(delivered[i]) = 1
        /\ ErrorCode(delivered[i][1]) = AEROSPIKE_OK
        /\ delivered[i][1].bins = JsObject([integer_bin |-> JsNumber(i + 10),
                                            string_bin |-> JsString(NumberToString(i))])

\* C15: the generation goes up by exactly one per successful write: the record
\* a test's put created and its one successful operate (TOUCH, or INCR) modified
\* is delivered by a successful get with generation 2 (the TOUCH test's
\* callback finds what it expects and does not throw), and the store holds no
\* record of another generation than the number of writes it took.
C15_GenerationPerWrite ==
    /\ \A i \in Calls : \A j \in 1..Len(delivered[i]) :
          ErrorCode(delivered[i][j]) = AEROSPIKE_OK =>
              /\ delivered[i][j].meta.t = "object"
              /\ JsGet(delivered[i][j].meta, "gen") = JsNumber(2)
              /\ test[i].t = "TOUCHSTRING" =>
                    /\ GetExpectations("TOUCHSTRING", delivered[i][j])
                    /\ "FatalException" \notin Range(log[i])
    /\ \A i \in Calls :
          test[i].t # "" =>
              StoredGen(TestKey(test[i].t, i)) \in
                  IF test[i].pc \in {"put", "done"} THEN {0}
                  ELSE IF test[i].pc = "put.worked"
                  THEN {IF ErrorCode(test[i].argv) = AEROSPIKE_OK THEN 1 ELSE 0}
                  ELSE IF test[i].pc \in {"operate", "failed"} THEN {1}
                  ELSE IF test[i].pc = "operate.worked"
                  THEN {IF ErrorCode(test[i].argv) = AEROSPIKE_OK THEN 2 ELSE 1}
                  ELSE IF test[i].pc \in {"get", "clean"} THEN {2}
                  ELSE {0, 2}

\* C15 witness: the get of a TOUCH iteration has succeeded and reported
\* generation 2.
C15_Witness ==
    \E i \in Calls :
        /\ test[i].t = "TOUCHSTRING"
        /\ Len(delivered[i]) = 1
        /\ ErrorCode(delivered[i][1]) = AEROSPIKE_OK
        /\ JsGet(delivered[i][1].meta, "gen") = JsNumber(2)

\* C16: completions are not ordered by issue order.  When the execution of a
\* call B has finished and the event loop is free, B's callback can be delivered
\* although a call A issued before B is still outstanding; and no call ever gets
\* more than its own one callback, delivered by its own respond.
C16_NoIssueOrder ==
    /\ \A a, b \in Calls :
          (/\ a < b
           /\ req[a].state \in {"queued", "working", "worked"}
           /\ req[b].state = "worked"
           /\ ~crashed
           /\ ~InGet(St)) => ENABLED uv_after_work(b)
    /\ \A c \in Calls :
          /\ Len(delivered[c]) <= 1
          /\ delivered[c] # << >> => req[c].state \in {"freed", "done"}

\* C16 witness: B, issued after A, has had its one callback and is done while
\* A's store call is still in flight and A has had none.
C16_Witness ==
    \E a, b \in Calls :
        /\ a < b
        /\ Responded(b) /\ Len(delivered[b]) = 1
        /\ req[a].state = "working" /\ delivered[a] = << >>

\* C17: a get whose selected bin names include one longer than a bin name may
\* be makes no store call; its callback fires exactly once, with a
\* parameter-error code.
C17_LongBinNameRejected ==
    \A c \in Calls :
        (Issued(c) /\ LongBinName(args[c])) =>
            /\ net[c] = << >>
            /\ Len(delivered[c]) <= 1
            /\ Over(c) => /\ Len(delivered[c]) = 1
                          /\ delivered[c][1].err.t = "object"
                          /\ ErrorCode(delivered[c][1]) \in
                                {AS_NODE_PARAM_ERR, as_status.AEROSPIKE_ERR_PARAM}

\* C18: prepare takes the bin-selecting path exactly for a call of three
\* arguments whose second is an array: the envelope then holds num_bins = the
\* length of the array and a bin-name array of num_bins + 1 entries, the
\* caller's names in the caller's order followed by NULL, and execute makes the
\* selecting call.  For every other call get_all_bins is true and execute asks
\* for the full record.
C18_BinSelection ==
    \A c \in Calls :
        Holds(c) =>
            LET a == args[c]
                d == Envelope(c)
            IN IF SelectsBins(a)
               THEN /\ d.get_all_bins = [st |-> "set", v |-> FALSE]
                    /\ d.num_bins = [st |-> "set", v |-> Len(a[2].el)]
                    /\ Len(d.bins.arr) = Len(a[2].el) + 1
                    /\ \A i \in 1..Len(a[2].el) :
                          /\ ~d.bins.arr[i].null
                          /\ d.bins.arr[i].nul
                          /\ d.bins.arr[i].chars = a[2].el[i].s
                    /\ d.bins.arr[Len(a[2].el) + 1].null
                    /\ \A j \in 1..Len(net[c]) : net[c][j].fn = "aerospike_key_select"
               ELSE /\ d.get_all_bins = [st |-> "set", v |-> TRUE]
                    /\ \A j \in 1..Len(net[c]) : net[c][j].fn = "aerospike_key_get"

\* C19: respond does its steps in this order: the four result objects are built
\* from the envelope, the callback is called, its reference is released (once),
\* key and record are destroyed, the envelope and the work request are freed.
\* A throw of the callback puts node::FatalException between the call and
\* Dispose; respond may end there, or at a fault, but never skips or reorders.
\* So nothing of the envelope is touched after `delete data`, and the callback
\* reference is not used after Dispose.  Until respond starts, the work request
\* points at the live envelope of its own call, whose callback is still held;
\* once respond has returned every step has been done and the callback called.
C19_RespondOrder ==
    \A c \in Calls :
        /\ LET ev == SelectSeq(log[c], IsRespondEvent)
           IN \/ IsPrefix(ev, RespondSteps)
              \/ IsPrefix(ev, RespondStepsThrown)
              \/ IsPrefix(ev, RespondStepsExit)
        /\ req[c].state \in {"queued", "working", "worked"} =>
              /\ Envelope(c).st = "live"
              /\ Envelope(c).callback.st = "held"
              /\ Envelope(c).callback.owner = c
        /\ req[c].state = "done" =>
              ("Dispose" \in Range(log[c]) => Len(delivered[c]) = 1)
        /\ req[c].state = "freed" =>
              /\ SelectSeq(log[c], IsRespondStep) = RespondSteps
              /\ Released(Block(req[c].data, "AsyncData", 0), "respond") \in Range(freed[c])
              /\ Len(delivered[c]) = 1

\* C19 witness: respond has run to its end for a call whose callback threw, and
\* for one whose callback returned.
C19_Witness ==
    \E c, b \in Calls :
        /\ SelectSeq(log[c], IsRespondStep) = RespondSteps
        /\ "FatalException" \in Range(log[c])
        /\ SelectSeq(log[b], IsRespondStep) = RespondSteps
        /\ "FatalException" \notin Range(log[b])
        /\ req[c].state = "freed" /\ req[b].state = "freed"

\* C20: no get reaches execute or respond with a key prepare never initialised:
\* the key every store call is given, and the key respond converts and destroys,
\* was initialised by a key parse of prepare.
C20_KeyInitialised ==
    \A c \in Calls :
        /\ \A j \in 1..Len(net[c]) : net[c][j].key.st = "init"
        /\ (Holds(c) /\ ("execute" \in Range(log[c]) \/ "respond" \in Range(log[c]))) =>
              Envelope(c).key.st # "uninit"

====
